---- MODULE Spec2Model ----
(***************************************************************************)
(* The transcript resolver of log-xp/crux: getTranscript(videoId) of       *)
(* src/lib/transcript.ts, with the KV cache store and the remote provider  *)
(* as its environment.  One invocation is a process that is suspended at   *)
(* each await (kv.get, fetch, kv.put) and resumed by the environment.      *)
(***************************************************************************)
EXTENDS Integers, Sequences, FiniteSets, TLC

\* ------------------------------------------------------------ bounds
\* Longest transcript the provider serves or the cache holds.
MaxLen == 2

\* ------------------------------------------------------------ JavaScript values
Undefined == [type |-> "undefined"]
Null == [type |-> "null"]
Str(s) == [type |-> "string", v |-> s]
Arr(items) == [type |-> "array", items |-> items]
Obj(error, transcript) == [type |-> "object", error |-> error, transcript |-> transcript]

\* JavaScript truthiness, as used by `if (x)` and `!x`.
Truthy(x) ==
  CASE x.type = "undefined" -> FALSE
    [] x.type = "null" -> FALSE
    [] x.type = "string" -> x.v # ""
    [] OTHER -> TRUE

\* ------------------------------------------------------------ input domains
VideoIds == {"abc123", "missing1"}

\* The requests, each with its own invocation of getTranscript.  Spec serves
\* them one at a time through the first; SpecConc lets the two overlap.
Procs == {1, 2}
Sequential == {1}

\* A JavaScript number holding whole milliseconds: days * MsPerDay + ms, kept in
\* two parts as `new Date` splits it (Day(t), TimeWithinDay(t)).
MsPerDay == 86400000
Number(days, ms) == [days |-> days, ms |-> ms]

\* TranscriptEntry: offset in milliseconds and the caption text.
Entries ==
  {[offset |-> Number(0, 0), text |-> "Hello"], [offset |-> Number(0, 61000), text |-> "World"]}
Transcripts == UNION {[1..n -> Entries] : n \in 0..MaxLen}

\* process.env.SUPADATA_API_KEY: unset, set to the empty string, or set.
ApiKeys == {Undefined, Str(""), Str("sd_key")}

\* process.env.TRANSCRIPT_CACHE: unset, empty, a plain string (what process.env
\* holds outside the Workers runtime) or a KV namespace binding.
PlainBinding == [type |-> "string", v |-> "TRANSCRIPT_CACHE_ID"]
KVNamespace == [type |-> "KVNamespace"]
Bindings == {Undefined, Str(""), PlainBinding, KVNamespace}

\* ------------------------------------------------------------ JSON text
\* JSON text is a sequence of tokens.
P(c) == [tok |-> "punct", c |-> c]
N(n) == [tok |-> "number", n |-> n]
S(s) == [tok |-> "string", s |-> s]

EntryTokens(e) ==
  <<P("{"), S("offset"), P(":"), N(e.offset), P(","), S("text"), P(":"), S(e.text), P("}")>>

RECURSIVE ItemsTokens(_)
ItemsTokens(items) ==
  IF Len(items) = 0 THEN <<>>
  ELSE IF Len(items) = 1 THEN EntryTokens(items[1])
  ELSE EntryTokens(items[1]) \o <<P(",")>> \o ItemsTokens(Tail(items))

\* JSON.stringify of an array of transcript entries.
JSONStringify(value) == <<P("[")>> \o ItemsTokens(value.items) \o <<P("]")>>

\* Parses the entries of a JSON array from token position i on.
RECURSIVE ParseItems(_, _)
ParseItems(text, i) ==
  IF text[i] = P("]") THEN <<>>
  ELSE LET j == IF text[i] = P(",") THEN i + 1 ELSE i
           e == [offset |-> text[j + 3].n, text |-> text[j + 7].s]
       IN <<e>> \o ParseItems(text, j + 9)

\* A parse that keeps the first entry only.
JSONParseFirstOnly(text) ==
  Arr(IF Len(ParseItems(text, 2)) > 1 THEN <<ParseItems(text, 2)[1]>> ELSE ParseItems(text, 2))

\* kv.get(key, {type: 'json'}) parses the stored text with JSON.parse.
JSONParse(text) == Arr(ParseItems(text, 2))

\* ------------------------------------------------------------ cache store
\* Expiration of the "not found" entries, in seconds.
NotFoundTtl == 3600

EmptyArrayText == JSONStringify(Arr(<<>>))

\* What the code writes: [] with a TTL, or a non-empty transcript without one.
CacheEntries ==
  {[json |-> EmptyArrayText, options |-> [expirationTtl |-> NotFoundTtl]]}
    \cup {[json |-> JSONStringify(Arr(t)), options |-> Undefined] : t \in Transcripts \ {<<>>}}

Stores == UNION {[keys -> CacheEntries] : keys \in SUBSET VideoIds}
EmptyStore == [k \in {} |-> Undefined]

\* ------------------------------------------------------------ provider responses
Statuses == {200, 404, 500}
JsonType == [type |-> "header", parts |-> <<"application/json", "; charset=utf-8">>]
HtmlType == [type |-> "header", parts |-> <<"text/html">>]
ContentTypes == {Null, JsonType, HtmlType}

ErrorFields == {Undefined, Str(""), Str("quota exceeded")}
TranscriptFields == {Undefined} \cup {Arr(t) : t \in Transcripts}

\* The body: a stream that fails while it is read, text that is not JSON, the
\* JSON literal null, or a JSON object.
Bodies ==
  {[kind |-> "unreadable"], [kind |-> "malformed"], [kind |-> "json", data |-> Null]}
    \cup {[kind |-> "json", data |-> Obj(e, t)] : e \in ErrorFields, t \in TranscriptFields}

Responses == [status : Statuses, contentType : ContentTypes, body : Bodies]
NoResponse == [kind |-> "none"]
Rejected == [kind |-> "rejected"]

VARIABLES
  apiKey,      \* process.env.SUPADATA_API_KEY
  binding,     \* process.env.TRANSCRIPT_CACHE
  store,       \* the KV namespace: key -> [json, options]
  pc,          \* where each invocation is suspended
  videoId,     \* the argument of each invocation
  kv,          \* the local kv of each invocation
  storeAtCall, \* the store as it was when the invocation was called
  lookup,      \* how the kv.get of the invocation ended
  cached,      \* cachedTranscript: what the kv.get of the invocation resolved to
  response,    \* what the fetch of the invocation produced
  pending,     \* the kv.put call in flight and the value returned after it
  putLog,      \* the kv.put calls the invocation has made, with their outcome
  kvGets,      \* kv.get calls made by the invocation
  httpCalls,   \* fetch calls made by the invocation
  result,      \* the value the invocation returned
  overlapped,  \* whether another fetch for the same identifier was in flight with this one
  previous,    \* what the request before got from the provider for this identifier and cached
  lastPut,     \* per key, the invocation in flight whose kv.put resolved last (0: none)
  param,       \* searchParams.v of each request
  view         \* what WatchPage rendered for each request

vars == <<apiKey, binding, store, pc, videoId, kv, storeAtCall, lookup, cached,
          response, pending, putLog, kvGets, httpCalls, result, overlapped,
          previous, lastPut, param, view>>

\* ------------------------------------------------------------ getTranscript
\* getTranscriptCacheKV(): the binding when process.env.TRANSCRIPT_CACHE is truthy.
getTranscriptCacheKV == IF Truthy(binding) THEN binding ELSE Null

\* A credential test that lets the empty string through.
MissingCredentialUnset == apiKey = Undefined

\* !apiKey
MissingCredential == ~ Truthy(apiKey)

\* response.ok
Ok(status) == status >= 200 /\ status =< 299

\* A content-type test that only looks for a missing header.
NotJsonMissingOnly(contentType) == contentType = Null

\* !contentType || !contentType.includes("application/json")
NotJson(contentType) ==
  \/ contentType = Null
  \/ contentType.parts = <<>>
  \/ ~ \E i \in 1..Len(contentType.parts) : contentType.parts[i] = "application/json"

NoPut == [kind |-> "none"]

\* A put that writes every entry under one fixed key.
PutCallFixedKey(key, value, options) ==
  [kind |-> "put", key |-> "abc123", value |-> value, options |-> options]

PutCall(key, value, options) == [kind |-> "put", key |-> key, value |-> value, options |-> options]

\* A return with no cache write before it.
Return(value) == [ret |-> value, put |-> NoPut]

\* A "not found" entry cached without expiration.
CacheNotFoundNoTtl(k, id) ==
  [ret |-> Arr(<<>>),
   put |-> IF Truthy(k) THEN PutCall(id, JSONStringify(Arr(<<>>)), Undefined) ELSE NoPut]

\* A "not found" entry written without the `if (kv)` guard.
CacheNotFoundUnguarded(k, id) ==
  [ret |-> Arr(<<>>),
   put |-> PutCall(id, JSONStringify(Arr(<<>>)), [expirationTtl |-> NotFoundTtl])]

\* The "confirmed no transcript" outcome: cache [] with a TTL when kv is there,
\* return [].
CacheNotFound(k, id) ==
  [ret |-> Arr(<<>>),
   put |-> IF Truthy(k)
           THEN PutCall(id, JSONStringify(Arr(<<>>)), [expirationTtl |-> NotFoundTtl])
           ELSE NoPut]

\* A transcript cached with the expiration of the "not found" entries.
CacheTranscriptExpiring(k, id, transcript) ==
  [ret |-> transcript,
   put |-> IF Truthy(k)
           THEN PutCall(id, JSONStringify(transcript), [expirationTtl |-> NotFoundTtl])
           ELSE NoPut]

\* The transcript outcome: cache it without expiration when kv is there, return it.
CacheTranscript(k, id, transcript) ==
  [ret |-> transcript,
   put |-> IF Truthy(k) THEN PutCall(id, JSONStringify(transcript), Undefined) ELSE NoPut]

\* An error test that gives way to a transcript in the same body.
HasErrorWithoutTranscript(data) == Truthy(data.error) /\ ~ Truthy(data.transcript)

\* if (data.error)
HasError(data) == Truthy(data.error)

\* A handler that tests the content-type before the status.
HandleResponseTypeFirst(k, id, r) ==
  IF r.body.kind = "unreadable" THEN Return(Null)
  ELSE IF NotJson(r.contentType) THEN Return(Null)
  ELSE IF ~ Ok(r.status)
  THEN IF r.status = 404 THEN CacheNotFound(k, id) ELSE Return(Null)
  ELSE IF r.body.kind # "json" THEN Return(Null)
  ELSE IF r.body.data = Null THEN Return(Null)
  ELSE IF HasError(r.body.data) THEN Return(Null)
  ELSE IF ~ Truthy(r.body.data.transcript) THEN CacheNotFound(k, id)
  ELSE IF Len(r.body.data.transcript.items) = 0 THEN CacheNotFound(k, id)
  ELSE CacheTranscript(k, id, r.body.data.transcript)

\* The body of the try block from the resolved fetch up to the kv.put call or the
\* return; an exception thrown on the way is caught and returns null.
HandleResponse(k, id, r) ==
  IF ~ Ok(r.status)
  THEN IF r.body.kind = "unreadable" THEN Return(Null)
       ELSE IF r.status = 404 THEN CacheNotFound(k, id)
       ELSE Return(Null)
  ELSE IF NotJson(r.contentType) THEN Return(Null)
  ELSE IF r.body.kind # "json" THEN Return(Null)
  ELSE IF r.body.data = Null THEN Return(Null)
  ELSE IF HasError(r.body.data) THEN Return(Null)
  ELSE IF ~ Truthy(r.body.data.transcript) THEN CacheNotFound(k, id)
  ELSE IF Len(r.body.data.transcript.items) = 0 THEN CacheNotFound(k, id)
  ELSE CacheTranscript(k, id, r.body.data.transcript)

\* A hit test that takes a cached [] for a miss.
CacheHitNonEmpty(value) == value # Null /\ value.items # <<>>

\* cachedTranscript !== null
CacheHit(value) == value # Null

\* What kv.get resolves to: the parsed entry, or null for a key it does not hold.
KvGet(key) == IF key \in DOMAIN store THEN JSONParse(store[key].json) ELSE Null

\* A put that leaves an entry the store already holds under the key.
KvPutIfAbsent(call) ==
  [k \in DOMAIN store \cup {call.key} |->
     IF k = call.key /\ k \notin DOMAIN store
     THEN [json |-> call.value, options |-> call.options]
     ELSE store[k]]

\* The store after kv.put(key, value, options).
KvPut(call) ==
  [k \in DOMAIN store \cup {call.key} |->
     IF k = call.key THEN [json |-> call.value, options |-> call.options] ELSE store[k]]

\* The record of a kv.put call: the call, whether it resolved, and the entry the
\* store holds under its key right after it.
Logged(call, ok, after) ==
  [call |-> call, ok |-> ok,
   stored |-> IF call.key \in DOMAIN after THEN after[call.key] ELSE Undefined]

\* What a caller gets when an exception leaves getTranscript.
Exception == [type |-> "exception"]

\* A kv.put error that leaves getTranscript.
AfterPutThrowsPropagates(ret) == Exception

\* A kv.put error that reaches the outer catch.
AfterPutThrowsFails(ret) == Null

\* The value returned when kv.put throws: the inner catch only logs.
AfterPutThrows(ret) == ret

\* Which invocations have had a fetch in flight together with another one for
\* the same identifier, once p issues its fetch for id.
Together(p, id) ==
  [q \in Procs |->
     IF q = p
     THEN \E o \in Procs \ {p} : pc[o] = "fetch" /\ videoId[o] = id
     ELSE overlapped[q] \/ (pc[q] = "fetch" /\ videoId[q] = id)]

\* The step after a miss or a failed lookup: issue the fetch.
StartFetch(p) ==
  /\ pc' = [pc EXCEPT ![p] = "fetch"]
  /\ httpCalls' = [httpCalls EXCEPT ![p] = @ + 1]
  /\ overlapped' = Together(p, videoId[p])

Finish(p, value) ==
  /\ pc' = [pc EXCEPT ![p] = "done"]
  /\ result' = [result EXCEPT ![p] = value]

\* ------------------------------------------------------------ WatchPage
\* searchParams.v: absent, empty, repeated (an array of strings) or one string.
RepeatedParam == [type |-> "array", items |-> <<"abc123", "missing1">>]
BadParams == {Undefined, Str(""), RepeatedParam}

\* typeof videoId !== 'string' || !videoId
MissingVideoId(v) == v.type # "string" \/ ~ Truthy(v)

\* The largest time value of a Date is 8.64e15 ms, which is MaxDays days.
MaxDays == 100000000

\* new Date(offset) holds a time value unless the offset is out of range.
ValidDate(t) == t.days < MaxDays \/ (t.days = MaxDays /\ t.ms = 0)

\* The calendar date of a day number: YearFromTime, MonthFromTime, DateFromTime.
CivilFromDays(days) ==
  LET z == days + 719468
      era == z \div 146097
      doe == z - era * 146097
      yoe == (doe - doe \div 1460 + doe \div 36524 - doe \div 146096) \div 365
      doy == doe - (365 * yoe + yoe \div 4 - yoe \div 100)
      mp == (5 * doy + 2) \div 153
      d == doy - (153 * mp + 2) \div 5 + 1
      m == IF mp < 10 THEN mp + 3 ELSE mp - 9
      y == yoe + era * 400 + (IF m =< 2 THEN 1 ELSE 0)
  IN [year |-> y, month |-> m, date |-> d]

Digit(n) == CASE n = 0 -> "0" [] n = 1 -> "1" [] n = 2 -> "2" [] n = 3 -> "3"
              [] n = 4 -> "4" [] n = 5 -> "5" [] n = 6 -> "6" [] n = 7 -> "7"
              [] n = 8 -> "8" [] n = 9 -> "9"

\* n in decimal, padded with zeros to the width.
RECURSIVE Padded(_, _)
Padded(n, width) ==
  IF width = 0 THEN <<>> ELSE Padded(n \div 10, width - 1) \o <<Digit(n % 10)>>

\* The year of an ISO string: four digits up to 9999, a sign and six digits after.
YearText(y) == IF y =< 9999 THEN Padded(y, 4) ELSE <<"+">> \o Padded(y, 6)

\* Date.prototype.toISOString, as a sequence of characters.
ToISOString(t) ==
  LET c == CivilFromDays(t.days)
  IN YearText(c.year) \o <<"-">> \o Padded(c.month, 2) \o <<"-">> \o Padded(c.date, 2)
       \o <<"T">> \o Padded(t.ms \div 3600000, 2)
       \o <<":">> \o Padded((t.ms \div 60000) % 60, 2)
       \o <<":">> \o Padded((t.ms \div 1000) % 60, 2)
       \o <<".">> \o Padded(t.ms % 1000, 3) \o <<"Z">>

\* String.prototype.substr(start, length)
Substr(str, start, length) ==
  SubSeq(str, start + 1, IF start + length < Len(str) THEN start + length ELSE Len(str))

\* new Date(entry.offset).toISOString().substr(14, 5)
FormatTime(offset) == Substr(ToISOString(offset), 14, 5)

\* What a request ends with: one of the four views, or the RangeError that
\* toISOString throws for an invalid Date.
NoView == [kind |-> "pending"]
MissingView == [kind |-> "missing"]
ErrorView(id) == [kind |-> "error", videoId |-> id]
NoTranscriptView(id) == [kind |-> "none", videoId |-> id]
TranscriptView(id, rows) == [kind |-> "transcript", videoId |-> id, rows |-> rows]
RangeError == [kind |-> "RangeError"]

\* WatchPage after getTranscript has returned transcriptData.
Render(v, transcriptData) ==
  IF transcriptData = Null THEN ErrorView(v.v)
  ELSE IF Len(transcriptData.items) = 0 THEN NoTranscriptView(v.v)
  ELSE IF \E i \in 1..Len(transcriptData.items) : ~ ValidDate(transcriptData.items[i].offset)
  THEN RangeError
  ELSE TranscriptView(v.v,
         [i \in 1..Len(transcriptData.items) |->
            [label |-> FormatTime(transcriptData.items[i].offset),
             text |-> transcriptData.items[i].text]])

\* No sequence from the provider is on record.
NoPrevious == [id |-> "", value |-> Null]

\* ------------------------------------------------------------ initial state
\* No request has been made yet.
Idle ==
  /\ pc = [p \in Procs |-> "idle"]
  /\ videoId = [p \in Procs |-> ""]
  /\ kv = [p \in Procs |-> Null]
  /\ storeAtCall = [p \in Procs |-> EmptyStore]
  /\ lookup = [p \in Procs |-> "none"]
  /\ cached = [p \in Procs |-> Undefined]
  /\ response = [p \in Procs |-> NoResponse]
  /\ pending = [p \in Procs |-> Return(Null)]
  /\ putLog = [p \in Procs |-> <<>>]
  /\ kvGets = [p \in Procs |-> 0]
  /\ httpCalls = [p \in Procs |-> 0]
  /\ result = [p \in Procs |-> Null]
  /\ overlapped = [p \in Procs |-> FALSE]
  /\ previous = [p \in Procs |-> NoPrevious]
  /\ lastPut = [k \in VideoIds |-> 0]
  /\ param = [p \in Procs |-> Undefined]
  /\ view = [p \in Procs |-> NoView]

\* The configuration is fixed for a deployment.  The KV namespace outlives
\* deployments, so it starts with any entries earlier runs can have written.
Init ==
  /\ apiKey \in ApiKeys
  /\ binding \in Bindings
  /\ store \in (IF binding = KVNamespace THEN Stores ELSE {EmptyStore})
  /\ Idle

\* ------------------------------------------------------------ actions
\* A request without a usable v: the page asks for one and calls nothing.
RequestWithoutId(p, v) ==
  /\ pc[p] = "idle"
  /\ MissingVideoId(v)
  /\ param' = [param EXCEPT ![p] = v]
  /\ view' = [view EXCEPT ![p] = MissingView]
  /\ UNCHANGED <<apiKey, binding, store, pc, videoId, kv, storeAtCall, lookup, cached,
                 response, pending, putLog, kvGets, httpCalls, result, overlapped,
                 previous, lastPut>>

\* A request with v = id: getTranscript(id) is called and runs to its first
\* await or return.
Invoke(p, id) ==
  /\ pc[p] = "idle"
  /\ ~ MissingVideoId(Str(id))
  /\ param' = [param EXCEPT ![p] = Str(id)]
  /\ view' = [view EXCEPT ![p] = NoView]
  /\ videoId' = [videoId EXCEPT ![p] = id]
  /\ kv' = [kv EXCEPT ![p] = getTranscriptCacheKV]
  /\ storeAtCall' = [storeAtCall EXCEPT ![p] = store]
  /\ lookup' = [lookup EXCEPT ![p] = "none"]
  /\ cached' = [cached EXCEPT ![p] = Undefined]
  /\ response' = [response EXCEPT ![p] = NoResponse]
  /\ pending' = [pending EXCEPT ![p] = Return(Null)]
  /\ putLog' = [putLog EXCEPT ![p] = <<>>]
  /\ IF MissingCredential
     THEN /\ Finish(p, Null)
          /\ kvGets' = [kvGets EXCEPT ![p] = 0]
          /\ httpCalls' = [httpCalls EXCEPT ![p] = 0]
          /\ overlapped' = [overlapped EXCEPT ![p] = FALSE]
     ELSE /\ result' = [result EXCEPT ![p] = Null]
          /\ IF Truthy(getTranscriptCacheKV)
             THEN /\ pc' = [pc EXCEPT ![p] = "kv.get"]
                  /\ kvGets' = [kvGets EXCEPT ![p] = 1]
                  /\ httpCalls' = [httpCalls EXCEPT ![p] = 0]
                  /\ overlapped' = [overlapped EXCEPT ![p] = FALSE]
             ELSE /\ pc' = [pc EXCEPT ![p] = "fetch"]
                  /\ kvGets' = [kvGets EXCEPT ![p] = 0]
                  /\ httpCalls' = [httpCalls EXCEPT ![p] = 1]
                  /\ overlapped' = Together(p, id)
  /\ previous' = [previous EXCEPT ![p] = IF @.id = id THEN @ ELSE NoPrevious]
  /\ UNCHANGED <<apiKey, binding, store, lastPut>>

\* A hit that returns the cached value and refreshes it from the provider.
KvGetResolvesRevalidates(p) ==
  /\ pc[p] = "kv.get"
  /\ kv[p] = KVNamespace
  /\ cached' = [cached EXCEPT ![p] = KvGet(videoId[p])]
  /\ lookup' = [lookup EXCEPT ![p] = IF CacheHit(KvGet(videoId[p])) THEN "hit" ELSE "miss"]
  /\ StartFetch(p)
  /\ UNCHANGED <<apiKey, binding, store, videoId, kv, storeAtCall, response, pending,
                 putLog, kvGets, result, previous, lastPut, param, view>>

\* kv.get resolves: a hit returns the cached value, a miss goes on to the fetch.
KvGetResolves(p) ==
  /\ pc[p] = "kv.get"
  /\ kv[p] = KVNamespace
  /\ cached' = [cached EXCEPT ![p] = KvGet(videoId[p])]
  /\ IF CacheHit(KvGet(videoId[p]))
     THEN /\ lookup' = [lookup EXCEPT ![p] = "hit"]
          /\ Finish(p, KvGet(videoId[p]))
          /\ UNCHANGED <<httpCalls, overlapped>>
     ELSE /\ lookup' = [lookup EXCEPT ![p] = "miss"]
          /\ StartFetch(p)
          /\ UNCHANGED result
  /\ UNCHANGED <<apiKey, binding, store, videoId, kv, storeAtCall, response, pending,
                 putLog, kvGets, previous, lastPut, param, view>>

\* A lookup error that escapes: the invocation fails without a fetch.
KvGetThrowsFails(p) ==
  /\ pc[p] = "kv.get"
  /\ lookup' = [lookup EXCEPT ![p] = "throw"]
  /\ Finish(p, Null)
  /\ UNCHANGED <<apiKey, binding, store, videoId, kv, storeAtCall, cached, response,
                 pending, putLog, kvGets, httpCalls, overlapped, previous, lastPut, param, view>>

\* A lookup error after which the invocation gives up on the cache.
KvGetThrowsBypasses(p) ==
  /\ pc[p] = "kv.get"
  /\ lookup' = [lookup EXCEPT ![p] = "throw"]
  /\ kv' = [kv EXCEPT ![p] = Null]
  /\ StartFetch(p)
  /\ UNCHANGED <<apiKey, binding, store, videoId, storeAtCall, cached, response,
                 pending, putLog, kvGets, result, previous, lastPut, param, view>>

\* A lookup error after which the lookup is tried again.
KvGetThrowsRetries(p) ==
  /\ pc[p] = "kv.get"
  /\ lookup' = [lookup EXCEPT ![p] = "throw"]
  /\ kvGets' = [kvGets EXCEPT ![p] = @ + 1]
  /\ UNCHANGED <<apiKey, binding, store, pc, videoId, kv, storeAtCall, cached, response,
                 pending, putLog, httpCalls, result, overlapped, previous, lastPut,
                 param, view>>

\* kv.get throws (always, when kv is no KV namespace): logged, then the fetch.
\* The cache has failed this request, so what the request before cached is no
\* longer on record for it.
KvGetThrows(p) ==
  /\ pc[p] = "kv.get"
  /\ lookup' = [lookup EXCEPT ![p] = "throw"]
  /\ previous' = [previous EXCEPT ![p] = NoPrevious]
  /\ StartFetch(p)
  /\ UNCHANGED <<apiKey, binding, store, videoId, kv, storeAtCall, cached, response,
                 pending, putLog, kvGets, result, lastPut, param, view>>

\* fetch rejects (a network-level failure): the outer catch returns null.
FetchRejects(p) ==
  /\ pc[p] = "fetch"
  /\ response' = [response EXCEPT ![p] = Rejected]
  /\ Finish(p, Null)
  /\ UNCHANGED <<apiKey, binding, store, videoId, kv, storeAtCall, lookup, cached,
                 pending, putLog, kvGets, httpCalls, overlapped, previous, lastPut, param, view>>

\* fetch resolves with response r, which is handled up to the kv.put call or
\* the return.
FetchResolves(p, r) ==
  /\ pc[p] = "fetch"
  /\ response' = [response EXCEPT ![p] = r]
  /\ LET h == HandleResponse(kv[p], videoId[p], r)
     IN /\ pending' = [pending EXCEPT ![p] = h]
        /\ IF h.put = NoPut
           THEN Finish(p, h.ret)
           ELSE /\ pc' = [pc EXCEPT ![p] = "kv.put"]
                /\ UNCHANGED result
  /\ UNCHANGED <<apiKey, binding, store, videoId, kv, storeAtCall, lookup, cached,
                 putLog, kvGets, httpCalls, overlapped, previous, lastPut, param, view>>

\* kv.put resolves: the entry is stored and the value is returned.
KvPutResolves(p) ==
  /\ pc[p] = "kv.put"
  /\ kv[p] = KVNamespace
  /\ store' = KvPut(pending[p].put)
  /\ putLog' = [putLog EXCEPT ![p] = Append(@, Logged(pending[p].put, TRUE, store'))]
  /\ lastPut' = [lastPut EXCEPT ![pending[p].put.key] = p]
  /\ Finish(p, pending[p].ret)
  /\ UNCHANGED <<apiKey, binding, videoId, kv, storeAtCall, lookup, cached, response,
                 pending, kvGets, httpCalls, overlapped, previous, param, view>>

\* kv.put throws (always, when kv is no KV namespace): logged, the value is returned.
KvPutThrows(p) ==
  /\ pc[p] = "kv.put"
  /\ putLog' = [putLog EXCEPT ![p] = Append(@, Logged(pending[p].put, FALSE, store))]
  /\ Finish(p, AfterPutThrows(pending[p].ret))
  /\ UNCHANGED <<apiKey, binding, store, videoId, kv, storeAtCall, lookup, cached,
                 response, pending, kvGets, httpCalls, overlapped, previous, lastPut, param, view>>

\* WatchPage takes the result and renders; the invocation's frame is gone and
\* the next request can start.  What stays on record is the sequence the
\* invocation got from the provider, if it cached it and the entry is still held.
Deliver(p) ==
  /\ pc[p] = "done"
  /\ view' = [view EXCEPT ![p] = Render(param[p], result[p])]
  /\ previous' = [previous EXCEPT ![p] =
       IF /\ response[p] \notin {NoResponse, Rejected}
          /\ result[p] # Null
          /\ Len(putLog[p]) = 1
          /\ putLog[p][1].ok
          /\ videoId[p] \in DOMAIN store
       THEN [id |-> videoId[p], value |-> result[p]]
       ELSE NoPrevious]
  /\ overlapped' = [overlapped EXCEPT ![p] = FALSE]
  /\ lastPut' = [k \in VideoIds |-> IF lastPut[k] = p THEN 0 ELSE lastPut[k]]
  /\ pc' = [pc EXCEPT ![p] = "idle"]
  /\ videoId' = [videoId EXCEPT ![p] = ""]
  /\ kv' = [kv EXCEPT ![p] = Null]
  /\ storeAtCall' = [storeAtCall EXCEPT ![p] = EmptyStore]
  /\ lookup' = [lookup EXCEPT ![p] = "none"]
  /\ cached' = [cached EXCEPT ![p] = Undefined]
  /\ response' = [response EXCEPT ![p] = NoResponse]
  /\ pending' = [pending EXCEPT ![p] = Return(Null)]
  /\ putLog' = [putLog EXCEPT ![p] = <<>>]
  /\ kvGets' = [kvGets EXCEPT ![p] = 0]
  /\ httpCalls' = [httpCalls EXCEPT ![p] = 0]
  /\ UNCHANGED <<apiKey, binding, store, result, param>>

\* A KV service that drops entries written without expiration too.
ExpireAny(key) ==
  /\ key \in DOMAIN store
  /\ store' = [k \in DOMAIN store \ {key} |-> store[k]]
  /\ previous' = [q \in Procs |-> IF previous[q].id = key THEN NoPrevious ELSE previous[q]]
  /\ lastPut' = [lastPut EXCEPT ![key] = 0]
  /\ UNCHANGED <<apiKey, binding, pc, videoId, kv, storeAtCall, lookup, cached,
                 response, pending, putLog, kvGets, httpCalls, result, overlapped,
                 param, view>>

\* The KV service drops an entry whose expirationTtl has run out.
Expire(key) ==
  /\ key \in DOMAIN store
  /\ store[key].options # Undefined
  /\ store' = [k \in DOMAIN store \ {key} |-> store[k]]
  /\ previous' = [q \in Procs |-> IF previous[q].id = key THEN NoPrevious ELSE previous[q]]
  /\ lastPut' = [lastPut EXCEPT ![key] = 0]
  /\ UNCHANGED <<apiKey, binding, pc, videoId, kv, storeAtCall, lookup, cached,
                 response, pending, putLog, kvGets, httpCalls, result, overlapped,
                 param, view>>

Next ==
  \/ \E p \in Sequential, v \in BadParams : RequestWithoutId(p, v)
  \/ \E p \in Sequential, id \in VideoIds : Invoke(p, id)
  \/ \E p \in Sequential : KvGetResolves(p)
  \/ \E p \in Sequential : KvGetThrows(p)
  \/ \E p \in Sequential : FetchRejects(p)
  \/ \E p \in Sequential, r \in Responses : FetchResolves(p, r)
  \/ \E p \in Sequential : KvPutResolves(p)
  \/ \E p \in Sequential : KvPutThrows(p)
  \/ \E p \in Sequential : Deliver(p)
  \/ \E key \in VideoIds : Expire(key)

Spec == Init /\ [][Next]_vars

\* ------------------------------------------------------------ overlapping requests
\* Two requests for one identifier against an empty cache, with the credential
\* and the KV binding configured.  The provider answers 404, 500 or 200 with a
\* one-entry transcript.
ConcVideoIds == {"abc123"}

ConcResponses ==
  {r \in Responses :
     /\ r.contentType = JsonType
     /\ r.body.kind = "json"
     /\ r.body.data # Null
     /\ r.body.data.error = Undefined
     /\ \/ r.status \in {404, 500} /\ r.body.data.transcript = Undefined
        \/ /\ r.status = 200
           /\ r.body.data.transcript # Undefined
           /\ Len(r.body.data.transcript.items) = 1}

InitConc ==
  /\ Init
  /\ apiKey = Str("sd_key")
  /\ binding = KVNamespace
  /\ store = EmptyStore

NextConc ==
  \/ \E p \in Procs, id \in ConcVideoIds : Invoke(p, id)
  \/ \E p \in Procs : KvGetResolves(p)
  \/ \E p \in Procs : KvGetThrows(p)
  \/ \E p \in Procs : FetchRejects(p)
  \/ \E p \in Procs, r \in ConcResponses : FetchResolves(p, r)
  \/ \E p \in Procs : KvPutResolves(p)
  \/ \E p \in Procs : KvPutThrows(p)
  \/ \E p \in Procs : Deliver(p)
  \/ \E key \in ConcVideoIds : Expire(key)

SpecConc == InitConc /\ [][NextConc]_vars

\* ------------------------------------------------------------ the page over any offsets
\* Requests against a cache that holds a transcript the provider served earlier,
\* whose offsets are any numbers of milliseconds: small ones, the last
\* millisecond of the year 9999, one in the year 10000, the largest time value a
\* Date takes and the millisecond after it.  The provider is out of reach.
PageOffsets ==
  {Number(0, 0), Number(0, 61000), Number(0, 3723000), Number(2932896, 86399999),
   Number(2932897, 3723000), Number(MaxDays, 0), Number(MaxDays, 1)}

PageEntries == {[offset |-> o, text |-> "Hello"] : o \in PageOffsets}
PageTranscripts == UNION {[1..n -> PageEntries] : n \in 1..MaxLen}

PageStores ==
  {EmptyStore}
    \cup {[k \in {"abc123"} |->
             [json |-> EmptyArrayText, options |-> [expirationTtl |-> NotFoundTtl]]]}
    \cup {[k \in {"abc123"} |-> [json |-> JSONStringify(Arr(t)), options |-> Undefined]] :
            t \in PageTranscripts}

InitPage ==
  /\ apiKey = Str("sd_key")
  /\ binding = KVNamespace
  /\ store \in PageStores
  /\ Idle

NextPage ==
  \/ \E p \in Sequential, v \in BadParams : RequestWithoutId(p, v)
  \/ \E p \in Sequential, id \in VideoIds : Invoke(p, id)
  \/ \E p \in Sequential : KvGetResolves(p)
  \/ \E p \in Sequential : FetchRejects(p)
  \/ \E p \in Sequential : Deliver(p)

SpecPage == InitPage /\ [][NextPage]_vars

\* ------------------------------------------------------------ properties
Done(p) == pc[p] = "done"

\* The value the cache store held under the identifier when getTranscript was
\* called, or Null when it held none.
HeldAtCall(p) ==
  IF videoId[p] \in DOMAIN storeAtCall[p]
  THEN JSONParse(storeAtCall[p][videoId[p]].json)
  ELSE Null

CredentialConfigured == apiKey \in {Str("sd_key")}

\* C1 as stated: whenever the cache store holds a value for the identifier,
\* getTranscript returns exactly that value and makes no outbound call, whatever
\* the rest of the configuration is (a missing credential included).
C1_HeldValueReturnedWhateverConfig ==
  \A p \in Procs :
    (Done(p) /\ HeldAtCall(p) # Null) =>
      (result[p] = HeldAtCall(p) /\ httpCalls[p] = 0)

\* C1 amended: whenever the cache lookup finds a value (the empty sequence
\* included), which needs the credential to be configured, getTranscript returns
\* exactly that value, makes no outbound call and writes nothing.
C1_CacheHitReturnsCached ==
  \A p \in Procs :
    (cached[p] \notin {Undefined, Null}) =>
      /\ CredentialConfigured
      /\ Done(p)
      /\ result[p] = cached[p]
      /\ cached[p] = HeldAtCall(p)
      /\ httpCalls[p] = 0
      /\ putLog[p] = <<>>

C1_Witness ==
  \E p \in Procs :
    /\ Done(p)
    /\ cached[p] = Arr(<<>>)
    /\ result[p] = Arr(<<>>)
    /\ httpCalls[p] = 0

\* C2: when the cache lookup reports absence or throws, the invocation attempts
\* exactly one outbound HTTP call.
C2_OneCallAfterMissOrThrow ==
  \A p \in Procs :
    (lookup[p] \in {"miss", "throw"}) =>
      /\ httpCalls[p] = 1
      /\ (Done(p) => response[p] # NoResponse)

C2_Witness ==
  \E p \in Procs :
    /\ Done(p)
    /\ lookup[p] = "throw"
    /\ httpCalls[p] = 1
    /\ result[p] \notin {Null, Arr(<<>>)}

\* C3: when the credential is missing (unset or empty), getTranscript returns
\* the failure marker and makes no outbound HTTP call.
C3_MissingCredentialFails ==
  \A p \in Procs :
    (pc[p] # "idle" /\ apiKey \in {Undefined, Str("")}) =>
      /\ Done(p)
      /\ result[p] = Null
      /\ httpCalls[p] = 0
      /\ response[p] = NoResponse

C3_Witness ==
  \E p \in Procs :
    /\ Done(p)
    /\ apiKey = Str("")
    /\ binding = KVNamespace
    /\ videoId[p] \in DOMAIN store
    /\ result[p] = Null
    /\ httpCalls[p] = 0

\* ------------------------------------------------------------ response classes
\* The classes of provider answers the properties speak of.
IsResponse(r) == r \notin {NoResponse, Rejected}
BodyRead(r) == r.body.kind # "unreadable"

\* A success status, a JSON content-type and a body that parses to an object.
JsonObject(r) ==
  /\ IsResponse(r)
  /\ r.status = 200
  /\ r.contentType = JsonType
  /\ r.body.kind = "json"
  /\ r.body.data.type = "object"

\* ... whose error field is set and not empty.
ReportsError(r) == JsonObject(r) /\ r.body.data.error \notin {Undefined, Str("")}

NotFound404(r) == IsResponse(r) /\ r.status = 404 /\ BodyRead(r)
MissingTranscript(r) ==
  JsonObject(r) /\ ~ ReportsError(r) /\ r.body.data.transcript = Undefined
EmptyTranscript(r) ==
  JsonObject(r) /\ ~ ReportsError(r) /\ r.body.data.transcript = Arr(<<>>)
NonEmptyTranscript(r) ==
  /\ JsonObject(r)
  /\ ~ ReportsError(r)
  /\ r.body.data.transcript \notin {Undefined, Arr(<<>>)}

ConfirmedAbsent(r) == NotFound404(r) \/ MissingTranscript(r) \/ EmptyTranscript(r)

\* Other non-success statuses, a non-JSON content-type on a success status, a
\* network-level exception (the fetch or the reading of the body) and a body
\* that is not JSON.
FailedStatus(r) == IsResponse(r) /\ r.status \notin {200, 404}
NotJsonType(r) == IsResponse(r) /\ r.status = 200 /\ r.contentType # JsonType
NetworkException(r) == r = Rejected \/ (IsResponse(r) /\ ~ BodyRead(r))
ParseException(r) ==
  IsResponse(r) /\ r.status = 200 /\ r.contentType = JsonType /\ r.body.kind = "malformed"

NotFoundEntry == [json |-> EmptyArrayText, options |-> [expirationTtl |-> NotFoundTtl]]

\* The store differs from what it was at the call by expired entries at most.
StoreLeftAsItWas(p) ==
  /\ \A k \in DOMAIN store : k \in DOMAIN storeAtCall[p] /\ store[k] = storeAtCall[p][k]
  /\ \A k \in DOMAIN storeAtCall[p] \ DOMAIN store : storeAtCall[p][k].options # Undefined

\* The put call of the invocation that carries [] with the 3600-second expiration.
WroteNotFound(p) ==
  /\ Len(putLog[p]) = 1
  /\ putLog[p][1].call = PutCall(videoId[p], EmptyArrayText, [expirationTtl |-> 3600])
  /\ (putLog[p][1].ok => putLog[p][1].stored = NotFoundEntry)

\* C4 as stated: on a cache miss, every 404 answer, every 200 JSON answer without
\* transcript field and every 200 JSON answer with an empty transcript (whatever
\* else the JSON object holds) returns [] and writes [] under the identifier with
\* an expiration of 3600 seconds.
C4_EveryAbsentAnswerCached ==
  \A p \in Procs :
    (/\ Done(p)
     /\ lookup[p] = "miss"
     /\ \/ NotFound404(response[p])
        \/ /\ JsonObject(response[p])
           /\ response[p].body.data.transcript \in {Undefined, Arr(<<>>)}) =>
      /\ result[p] = Arr(<<>>)
      /\ WroteNotFound(p)

\* C4 amended: on a cache miss, a 404 answer, and a 200 JSON answer that has no
\* non-empty error field and has no transcript field or an empty one, each return
\* [] and write [] under the identifier with an expiration of 3600 seconds.
C4_ConfirmedAbsentCachedWithTtl ==
  \A p \in Procs :
    (Done(p) /\ lookup[p] = "miss" /\ ConfirmedAbsent(response[p])) =>
      /\ result[p] = Arr(<<>>)
      /\ WroteNotFound(p)

C4_Witness ==
  \E p \in Procs :
    /\ Done(p)
    /\ lookup[p] = "miss"
    /\ NotFound404(response[p])
    /\ result[p] = Arr(<<>>)
    /\ putLog[p][1].ok
    /\ store[videoId[p]] = NotFoundEntry

\* The put call of the invocation that carries the returned sequence without
\* expiration, and the store holding that sequence once the call has resolved.
WroteResult(p) ==
  /\ Len(putLog[p]) = 1
  /\ putLog[p][1].call.key = videoId[p]
  /\ putLog[p][1].call.options = Undefined
  /\ JSONParse(putLog[p][1].call.value) = result[p]
  /\ (putLog[p][1].ok =>
        /\ videoId[p] \in DOMAIN store
        /\ store[videoId[p]].options = Undefined
        /\ JSONParse(store[videoId[p]].json) = result[p])

\* C5 as stated: on a cache miss, every 200 JSON answer with a non-empty
\* transcript field (whatever else the JSON object holds) returns that sequence
\* unchanged and writes it under the identifier without expiration, the cache
\* then holding exactly the returned value.
C5_EveryTranscriptAnswerCached ==
  \A p \in Procs :
    (/\ Done(p)
     /\ lookup[p] = "miss"
     /\ JsonObject(response[p])
     /\ response[p].body.data.transcript \notin {Undefined, Arr(<<>>)}) =>
      /\ result[p] = response[p].body.data.transcript
      /\ WroteResult(p)

\* C5 amended: on a cache miss, a 200 JSON answer with a non-empty transcript
\* field and no non-empty error field returns that sequence unchanged (same
\* entries, same order) and writes the same sequence under the identifier without
\* expiration, the cache then holding exactly the returned value.
C5_TranscriptReturnedAndCached ==
  \A p \in Procs :
    (Done(p) /\ lookup[p] = "miss" /\ NonEmptyTranscript(response[p])) =>
      /\ result[p] = response[p].body.data.transcript
      /\ WroteResult(p)

C5_Witness ==
  \E p \in Procs :
    /\ Done(p)
    /\ lookup[p] = "miss"
    /\ NonEmptyTranscript(response[p])
    /\ Len(result[p].items) = 2
    /\ result[p].items[1] # result[p].items[2]
    /\ putLog[p][1].ok
    /\ JSONParse(store[videoId[p]].json) = result[p]

\* C6: on a cache miss, a non-success status other than 404, a success answer
\* whose content-type is not JSON, and a network-level or JSON-parsing exception
\* each return the failure marker, write nothing and leave the store as it was.
C6_FailuresWriteNothing ==
  \A p \in Procs :
    (/\ Done(p)
     /\ lookup[p] = "miss"
     /\ \/ FailedStatus(response[p])
        \/ NotJsonType(response[p])
        \/ NetworkException(response[p])
        \/ ParseException(response[p])) =>
      /\ result[p] = Null
      /\ putLog[p] = <<>>
      /\ StoreLeftAsItWas(p)

C6_Witness ==
  \E p \in Procs :
    /\ Done(p)
    /\ lookup[p] = "miss"
    /\ IsResponse(response[p])
    /\ response[p].status = 200
    /\ response[p].contentType = HtmlType
    /\ response[p].body.kind = "json"
    /\ response[p].body.data # Null
    /\ response[p].body.data.transcript \notin {Undefined, Arr(<<>>)}
    /\ result[p] = Null
    /\ store = storeAtCall[p]

\* C7 as stated: on a cache miss, a success-status JSON body that contains an
\* error field returns the failure marker and writes nothing, for every value of
\* the error field (the empty string included) and of the transcript field.
C7_AnyErrorFieldFails ==
  \A p \in Procs :
    (/\ Done(p)
     /\ lookup[p] = "miss"
     /\ JsonObject(response[p])
     /\ response[p].body.data.error # Undefined) =>
      /\ result[p] = Null
      /\ putLog[p] = <<>>

\* C7 amended: on a cache miss, a success-status JSON body whose error field is
\* a non-empty string returns the failure marker and writes nothing, whatever
\* the transcript field holds.
C7_NonEmptyErrorFieldFails ==
  \A p \in Procs :
    (/\ Done(p)
     /\ lookup[p] = "miss"
     /\ JsonObject(response[p])
     /\ response[p].body.data.error.type = "string"
     /\ response[p].body.data.error.v # "") =>
      /\ result[p] = Null
      /\ putLog[p] = <<>>
      /\ StoreLeftAsItWas(p)

C7_Witness ==
  \E p \in Procs :
    /\ Done(p)
    /\ lookup[p] = "miss"
    /\ JsonObject(response[p])
    /\ response[p].body.data.error = Str("quota exceeded")
    /\ response[p].body.data.transcript \notin {Undefined, Arr(<<>>)}
    /\ result[p] = Null
    /\ putLog[p] = <<>>

\* The value each populating outcome returns.
PopulatingValue(r) ==
  IF NonEmptyTranscript(r) THEN r.body.data.transcript ELSE Arr(<<>>)

\* C8: a cache write that throws never changes what getTranscript returns: for
\* each populating outcome (404, missing, empty or non-empty transcript) the value
\* returned is the one returned when the put succeeds, never the failure marker.
C8_PutFailureSwallowed ==
  \A p \in Procs :
    (Done(p) /\ putLog[p] # <<>>) =>
      /\ ConfirmedAbsent(response[p]) \/ NonEmptyTranscript(response[p])
      /\ result[p] = PopulatingValue(response[p])
      /\ result[p] # Null

C8_Witness ==
  \E p \in Procs :
    /\ Done(p)
    /\ binding = KVNamespace
    /\ Len(putLog[p]) = 1
    /\ ~ putLog[p][1].ok
    /\ NonEmptyTranscript(response[p])
    /\ result[p] = response[p].body.data.transcript
    /\ videoId[p] \notin DOMAIN store

\* What an invocation returns and the put calls it makes after a lookup that
\* reports absence, as a function of the identifier and the provider's answer.
AfterMiss(id, r) ==
  IF ConfirmedAbsent(r)
  THEN [result |-> Arr(<<>>),
        puts |-> <<PutCall(id, EmptyArrayText, [expirationTtl |-> 3600])>>]
  ELSE IF NonEmptyTranscript(r)
  THEN [result |-> r.body.data.transcript,
        puts |-> <<PutCall(id, JSONStringify(r.body.data.transcript), Undefined)>>]
  ELSE [result |-> Null, puts |-> <<>>]

PutCalls(p) == [i \in 1..Len(putLog[p]) |-> putLog[p][i].call]

\* C9: a cache lookup that throws is treated exactly as a miss: for every provider
\* answer the result and the cache write attempted are those of a lookup that
\* reports absence, and the lookup error alone never gives the failure marker.
C9_LookupThrowIsMiss ==
  \A p \in Procs :
    (Done(p) /\ lookup[p] \in {"miss", "throw"}) =>
      /\ response[p] # NoResponse
      /\ result[p] = AfterMiss(videoId[p], response[p]).result
      /\ PutCalls(p) = AfterMiss(videoId[p], response[p]).puts

C9_Witness ==
  \E p \in Procs :
    /\ Done(p)
    /\ lookup[p] = "throw"
    /\ binding = KVNamespace
    /\ NonEmptyTranscript(response[p])
    /\ result[p] = response[p].body.data.transcript
    /\ putLog[p][1].ok
    /\ JSONParse(store[videoId[p]].json) = result[p]

NoBinding == binding \in {Undefined, Str("")}

\* C10 as stated: with no cache-store binding, every invocation makes an outbound
\* call and performs no cache read and no cache write.
C10_NoBindingAlwaysFetches ==
  \A p \in Procs :
    (Done(p) /\ NoBinding) =>
      /\ httpCalls[p] = 1
      /\ kvGets[p] = 0
      /\ putLog[p] = <<>>

\* C10 amended: with no cache-store binding and the credential configured, every
\* invocation makes one outbound call and performs no cache read and no cache
\* write.
C10_NoBindingFetchesWithCredential ==
  \A p \in Procs :
    (pc[p] # "idle" /\ NoBinding /\ CredentialConfigured) =>
      /\ pc[p] \in {"fetch", "done"}
      /\ httpCalls[p] = 1
      /\ kvGets[p] = 0
      /\ lookup[p] = "none"
      /\ putLog[p] = <<>>
      /\ store = storeAtCall[p]

C10_Witness ==
  \E p \in Procs :
    /\ Done(p)
    /\ binding = Undefined
    /\ NonEmptyTranscript(response[p])
    /\ result[p] = response[p].body.data.transcript
    /\ httpCalls[p] = 1
    /\ putLog[p] = <<>>

\* An entry is [] with the 3600-second expiration or a non-empty transcript
\* without expiration.
WellFormedEntry(json, options) ==
  \/ json = EmptyArrayText /\ options = [expirationTtl |-> 3600]
  \/ JSONParse(json).items # <<>> /\ options = Undefined

\* C11: every value getTranscript writes goes under the requested identifier and
\* is [] with an expiration of 3600 seconds or a non-empty transcript without
\* expiration; no entry of the store is ever an empty sequence without
\* expiration or a non-empty one with it.
C11_WritesWellFormed ==
  /\ \A p \in Procs :
       /\ pending[p].put # NoPut =>
            /\ pending[p].put.key = videoId[p]
            /\ WellFormedEntry(pending[p].put.value, pending[p].put.options)
       /\ \A i \in 1..Len(putLog[p]) :
            /\ putLog[p][i].call.key = videoId[p]
            /\ WellFormedEntry(putLog[p][i].call.value, putLog[p][i].call.options)
            /\ putLog[p][i].ok =>
                 putLog[p][i].stored =
                   [json |-> putLog[p][i].call.value, options |-> putLog[p][i].call.options]
  /\ \A k \in DOMAIN store : WellFormedEntry(store[k].json, store[k].options)

C11_Witness ==
  \E p \in Procs :
    /\ Done(p)
    /\ videoId[p] = "missing1"
    /\ Len(putLog[p]) = 1
    /\ putLog[p][1].ok
    /\ store["missing1"] = NotFoundEntry
    /\ "abc123" \in DOMAIN store
    /\ store["abc123"].options = Undefined
    /\ "abc123" \notin DOMAIN storeAtCall[p] \/ storeAtCall[p]["abc123"] = store["abc123"]

\* The entry a kv.put call writes.
EntryOf(call) == [json |-> call.value, options |-> call.options]

\* C12: two overlapping invocations for one uncached identifier both miss and
\* each issues its own call to the provider, whatever the other is doing; both
\* then write the same key, and the entry held is that of the write that
\* resolved last.
C12_BothFetchLastWriteDecides ==
  /\ \A p \in Procs :
       lookup[p] = "miss" =>
         /\ httpCalls[p] = 1
         /\ pc[p] = "fetch" => response[p] = NoResponse
         /\ pending[p].put # NoPut => pending[p].put.key = videoId[p]
  /\ \A k \in VideoIds :
       lastPut[k] # 0 =>
         /\ k \in DOMAIN store
         /\ Len(putLog[lastPut[k]]) = 1
         /\ putLog[lastPut[k]][1].ok
         /\ store[k] = EntryOf(putLog[lastPut[k]][1].call)

\* Both invocations missed, had their calls in flight at once and wrote
\* different values; the one that wrote last decided the entry.
C12_Witness ==
  \E p \in Procs, q \in Procs :
    /\ p # q
    /\ Done(p) /\ Done(q)
    /\ videoId[p] = videoId[q]
    /\ lookup[p] = "miss" /\ lookup[q] = "miss"
    /\ overlapped[p] /\ overlapped[q]
    /\ Len(putLog[p]) = 1 /\ putLog[p][1].ok
    /\ Len(putLog[q]) = 1 /\ putLog[q][1].ok
    /\ putLog[p][1].stored = EntryOf(putLog[p][1].call)
    /\ EntryOf(putLog[p][1].call) # EntryOf(putLog[q][1].call)
    /\ lastPut[videoId[q]] = q
    /\ store[videoId[q]] = EntryOf(putLog[q][1].call)

\* WatchPage has rendered what getTranscript returned, which is still in result.
Rendered(p) == pc[p] = "idle" /\ view[p].kind \notin {"pending", "missing"}

\* C13 as stated: WatchPage shows exactly one of four views: a missing, empty or
\* non-string identifier gives the missing-identifier view and getTranscript is
\* not invoked; a failure gives the error view; the empty sequence the
\* no-transcript view; a non-empty sequence one row per entry, in order.
C13_OneOfFourViews ==
  \A p \in Procs :
    /\ (pc[p] = "idle" /\ view[p] # NoView /\ MissingVideoId(param[p])) =>
         /\ view[p] = MissingView
         /\ kvGets[p] = 0
         /\ httpCalls[p] = 0
    /\ Rendered(p) =>
         /\ ~ MissingVideoId(param[p])
         /\ IF result[p] = Null THEN view[p] = ErrorView(param[p].v)
            ELSE IF result[p].items = <<>> THEN view[p] = NoTranscriptView(param[p].v)
            ELSE /\ view[p].kind = "transcript"
                 /\ view[p].videoId = param[p].v
                 /\ Len(view[p].rows) = Len(result[p].items)
                 /\ \A i \in 1..Len(result[p].items) :
                      view[p].rows[i].text = result[p].items[i].text

\* Two-digit minutes, a colon and two-digit seconds of an offset.  The days of
\* the offset are whole hours, so they drop out of both.
MinutesSeconds(offset) ==
  Padded((offset.ms \div 60000) % 60, 2) \o <<":">> \o Padded((offset.ms \div 1000) % 60, 2)

\* C20 as stated: for every entry with a non-negative whole offset in
\* milliseconds the label shown is two-digit minutes and seconds,
\* (offset div 60000) mod 60 and (offset div 1000) mod 60; hours and
\* milliseconds are dropped.
C20_LabelIsMinutesSeconds ==
  \A p \in Procs :
    (Rendered(p) /\ result[p] # Null /\ result[p].items # <<>>) =>
      /\ view[p].kind = "transcript"
      /\ \A i \in 1..Len(result[p].items) :
           view[p].rows[i].label = MinutesSeconds(result[p].items[i].offset)

\* The answers the rules of response handling speak of: the body was read, and
\* where the rules look into it, it is a JSON object.
InRuleTable(r) ==
  /\ IsResponse(r)
  /\ BodyRead(r)
  /\ (r.status = 200 /\ r.contentType = JsonType) =>
       (r.body.kind = "json" /\ r.body.data.type = "object")

\* What the first matching rule gives, as an invocation's result and put calls.
RuleGivesEmpty(p) ==
  /\ result[p] = Arr(<<>>)
  /\ PutCalls(p) =
       IF NoBinding THEN <<>>
       ELSE <<PutCall(videoId[p], EmptyArrayText, [expirationTtl |-> 3600])>>

RuleGivesFailure(p) == result[p] = Null /\ PutCalls(p) = <<>>

RuleGivesTranscript(p) ==
  /\ result[p] = response[p].body.data.transcript
  /\ PutCalls(p) =
       IF NoBinding THEN <<>>
       ELSE <<PutCall(videoId[p], JSONStringify(response[p].body.data.transcript), Undefined)>>

\* C14 as stated: the rules apply in priority order: 404 gives the empty
\* sequence whatever the content-type or body, any other non-success status
\* fails, a non-JSON content-type on a success status fails whatever the body,
\* an error field fails even beside a non-empty transcript, and only otherwise
\* is the transcript looked at; result and cache write are those of the first
\* matching rule.
C14_FirstRuleAnyErrorField ==
  \A p \in Procs :
    (Done(p) /\ InRuleTable(response[p])) =>
      LET r == response[p]
      IN IF r.status = 404 THEN RuleGivesEmpty(p)
         ELSE IF r.status # 200 THEN RuleGivesFailure(p)
         ELSE IF r.contentType # JsonType THEN RuleGivesFailure(p)
         ELSE IF r.body.data.error # Undefined THEN RuleGivesFailure(p)
         ELSE IF r.body.data.transcript \in {Undefined, Arr(<<>>)} THEN RuleGivesEmpty(p)
         ELSE RuleGivesTranscript(p)

\* C14 amended: the same priority order, with the error rule matching an error
\* field that is set and not the empty string.
C14_FirstMatchingRule ==
  \A p \in Procs :
    (Done(p) /\ InRuleTable(response[p])) =>
      LET r == response[p]
      IN IF r.status = 404 THEN RuleGivesEmpty(p)
         ELSE IF r.status # 200 THEN RuleGivesFailure(p)
         ELSE IF r.contentType # JsonType THEN RuleGivesFailure(p)
         ELSE IF r.body.data.error \notin {Undefined, Str("")} THEN RuleGivesFailure(p)
         ELSE IF r.body.data.transcript \in {Undefined, Arr(<<>>)} THEN RuleGivesEmpty(p)
         ELSE RuleGivesTranscript(p)

\* A 404 with an HTML content-type whose body carries both an error and a
\* non-empty transcript: the first rule wins.
C14_Witness ==
  \E p \in Procs :
    /\ Done(p)
    /\ response[p] # NoResponse /\ response[p] # Rejected
    /\ response[p].status = 404
    /\ response[p].contentType = HtmlType
    /\ response[p].body.kind = "json"
    /\ response[p].body.data # Null
    /\ response[p].body.data.error = Str("quota exceeded")
    /\ response[p].body.data.transcript \notin {Undefined, Arr(<<>>)}
    /\ result[p] = Arr(<<>>)
    /\ Len(putLog[p]) = 1
    /\ putLog[p][1].ok
    /\ store[videoId[p]] = NotFoundEntry

\* C15: across requests that do not overlap, with the credential configured, the
\* cache store available and its operations succeeding: after getTranscript has
\* returned a sequence it got from the provider (non-empty, or empty while its
\* entry has not expired), the next getTranscript for the identifier returns
\* the same sequence without calling the provider and without writing.
C15_NextCallServedFromCache ==
  \A p \in Procs :
    (/\ Done(p)
     /\ previous[p] # NoPrevious
     /\ previous[p].id = videoId[p]
     /\ lookup[p] # "throw") =>
      /\ CredentialConfigured
      /\ binding = KVNamespace
      /\ lookup[p] = "hit"
      /\ result[p] = previous[p].value
      /\ httpCalls[p] = 0
      /\ putLog[p] = <<>>

\* The request before got the two-entry transcript from the provider, this one
\* is served it from the cache.
C15_Witness ==
  \E p \in Procs :
    /\ Done(p)
    /\ previous[p].id = videoId[p]
    /\ previous[p].value # Null
    /\ Len(previous[p].value.items) = 2
    /\ lookup[p] = "hit"
    /\ result[p] = previous[p].value
    /\ httpCalls[p] = 0

\* The same for the empty sequence, whose entry has not expired.
C15_WitnessEmpty ==
  \E p \in Procs :
    /\ Done(p)
    /\ previous[p].id = videoId[p]
    /\ previous[p].value = Arr(<<>>)
    /\ result[p] = Arr(<<>>)
    /\ httpCalls[p] = 0

\* An invocation is under way or has returned.
Called(p) == pc[p] # "idle"

\* An invocation is suspended at one of its awaits.
Suspended(p) == pc[p] \in {"kv.get", "fetch", "kv.put"}

\* How far an invocation has come.
Stage(at) ==
  CASE at = "idle" -> 0 [] at = "kv.get" -> 1 [] at = "fetch" -> 2 [] at = "kv.put" -> 3
    [] at = "done" -> 4

\* At most one cache lookup, one HTTP call and one cache write so far, and each
\* await is reached with the calls before it made and those after it not yet.
OneCallEach ==
  \A p \in Procs :
    /\ kvGets[p] \in {0, 1}
    /\ httpCalls[p] \in {0, 1}
    /\ Len(putLog[p]) \in {0, 1}
    /\ pc[p] = "kv.get" => (kvGets[p] = 1 /\ httpCalls[p] = 0 /\ putLog[p] = <<>>)
    /\ pc[p] = "fetch" => (httpCalls[p] = 1 /\ response[p] = NoResponse /\ putLog[p] = <<>>)
    /\ pc[p] = "kv.put" => (httpCalls[p] = 1 /\ response[p] # NoResponse /\ putLog[p] = <<>>)

\* Whatever resumes a suspended invocation takes it to a later await or to its
\* return, and never adds a second call of a kind.
MovesOn ==
  \A p \in Procs :
    /\ Suspended(p) =>
         \/ UNCHANGED <<pc[p], kvGets[p], httpCalls[p], putLog[p], result[p]>>
         \/ Stage(pc'[p]) > Stage(pc[p])
    /\ Suspended(p) => kvGets'[p] = kvGets[p]
    /\ (Suspended(p) /\ pc[p] # "kv.get") => httpCalls'[p] = httpCalls[p]

\* C16: no operation is retried: on every path, the failure paths included, an
\* invocation makes at most one cache lookup, at most one HTTP call and at most
\* one cache write, and then ends: every step of it leads to a later await or
\* to the return.
C16_NoRetries == []OneCallEach /\ [][MovesOn]_vars

\* An invocation that made all three calls and has returned.
C16_Witness ==
  \E p \in Procs :
    /\ Done(p)
    /\ kvGets[p] = 1
    /\ httpCalls[p] = 1
    /\ Len(putLog[p]) = 1
    /\ lookup[p] = "throw"
    /\ ~ putLog[p][1].ok

\* C17: the steps of an invocation are ordered: the lookup has completed before
\* the HTTP call starts, the call is made only after a miss, a lookup that
\* threw or with no cache store, and a cache write comes only after the
\* response was received, never without an outbound call in the invocation.
C17_StepsOrdered ==
  \A p \in Procs :
    /\ pc[p] = "kv.get" => (httpCalls[p] = 0 /\ lookup[p] = "none" /\ cached[p] = Undefined)
    /\ (Called(p) /\ httpCalls[p] # 0) =>
         \/ lookup[p] = "miss" /\ cached[p] = Null
         \/ lookup[p] = "throw"
         \/ lookup[p] = "none" /\ kvGets[p] = 0 /\ ~ Truthy(kv[p])
    /\ (pc[p] = "kv.put" \/ putLog[p] # <<>>) =>
         /\ httpCalls[p] = 1
         /\ IsResponse(response[p])
         /\ pending[p] = HandleResponse(kv[p], videoId[p], response[p])

\* An invocation whose lookup missed, whose call was answered and whose write
\* resolved.
C17_Witness ==
  \E p \in Procs :
    /\ Done(p)
    /\ lookup[p] = "miss"
    /\ httpCalls[p] = 1
    /\ IsResponse(response[p])
    /\ Len(putLog[p]) = 1
    /\ putLog[p][1].ok

\* An error that getTranscript does not recover from locally: the credential
\* is missing, the fetch rejects, the body cannot be read, or a body received
\* as JSON does not parse.
UnrecoveredError(p) ==
  \/ ~ CredentialConfigured
  \/ NetworkException(response[p])
  \/ ParseException(response[p])

\* C18: getTranscript never lets an exception reach its caller: under any
\* combination of a missing credential, a failing cache read, a network
\* failure, a body-read or JSON-parse failure and a failing cache write it
\* returns a sequence or the failure marker, and every error it does not
\* recover from locally gives that one marker.
C18_NeverThrows ==
  \A p \in Procs :
    Done(p) =>
      /\ result[p].type \in {"null", "array"}
      /\ UnrecoveredError(p) => result[p] = Null
      /\ (lookup[p] = "throw" /\ ~ UnrecoveredError(p)) =>
           result[p] = AfterMiss(videoId[p], response[p]).result
      /\ (putLog[p] # <<>> /\ ~ putLog[p][1].ok) => result[p] = pending[p].ret

\* Both cache operations threw and the provider's transcript is returned.
C18_Witness ==
  \E p \in Procs :
    /\ Done(p)
    /\ lookup[p] = "throw"
    /\ Len(putLog[p]) = 1
    /\ ~ putLog[p][1].ok
    /\ NonEmptyTranscript(response[p])
    /\ result[p] = response[p].body.data.transcript

\* What the invocation is about to write was decided by the provider's answer
\* to it alone.
AfterMissPending(p) == HandleResponse(kv[p], videoId[p], response[p])

\* The store holds a non-empty transcript under the key.
HoldsTranscript(k) == k \in DOMAIN store /\ store[k].options = Undefined

\* C19 as stated: under any interleaving of invocations for one identifier, once
\* the store holds a non-empty transcript for it the entry is never replaced by
\* the empty sequence or by a different value.
C19_TranscriptEntryNeverReplaced ==
  [][\A k \in VideoIds : HoldsTranscript(k) => (HoldsTranscript(k)' /\ store'[k] = store[k])]_vars

\* C19 amended: a non-empty transcript held for an identifier never expires and
\* is never touched by an invocation whose lookup found it; the entry changes
\* only by the kv.put of an invocation for that identifier whose own lookup
\* missed (before the entry was written) or threw, and becomes what that
\* invocation got from the provider.
C19_ReplacedOnlyByLateWrite ==
  [][\A k \in VideoIds :
       (HoldsTranscript(k) /\ ~ (HoldsTranscript(k)' /\ store'[k] = store[k])) =>
         \E p \in Procs :
           /\ pc[p] = "kv.put"
           /\ pc'[p] = "done"
           /\ videoId[p] = k
           /\ lookup[p] \in {"miss", "throw"}
           /\ k \in DOMAIN store'
           /\ store'[k] = EntryOf(pending[p].put)
           /\ pending[p] = AfterMissPending(p)]_vars

\* An invocation that missed before the other one wrote the transcript has
\* replaced it by the empty sequence.
C19_Witness ==
  \E p \in Procs, q \in Procs :
    /\ p # q
    /\ Done(p) /\ Done(q)
    /\ videoId[p] = videoId[q]
    /\ lookup[p] = "miss" /\ lookup[q] = "miss"
    /\ Len(putLog[p]) = 1 /\ putLog[p][1].ok
    /\ Len(putLog[q]) = 1 /\ putLog[q][1].ok
    /\ putLog[p][1].stored.options = Undefined
    /\ lastPut[videoId[q]] = q
    /\ store[videoId[q]] = NotFoundEntry

====
